---------------------------- MODULE Spec2Model ----------------------------
(***************************************************************************)
(* A model of the GTFS -> KML/KMZ generator: src/generator.py              *)
(* (generate_kmz_file) and its HTTP wrapper src/main.py (create_kmz).      *)
(*                                                                         *)
(* Strings that the code inspects character by character (colors) are      *)
(* sequences of one-character strings.  A table cell read by pandas is a   *)
(* record [k, v]: k = "num" (a number v), "nan" (missing) or "str" (text   *)
(* that no numeric cast accepts).                                          *)
(***************************************************************************)
EXTENDS Integers, Sequences, FiniteSets, TLC

VARIABLES
    pc,                 \* position in create_kmz / generate_kmz_file
    error,              \* the exception that ended the call ("" while none)
    gtfs_url,           \* GTFS_URL      (generator.py:16)
    github_token,       \* GITHUB_TOKEN  (generator.py:25)
    output_format,      \* output_format (generator.py:9)
    net,                \* the GET requests issued so far, in order
    resp,               \* the GTFS response: <<>> until it resolved, then <<feed>>
    r_metro,            \* the overlay response: <<>> until resolved, then <<placemarks>>
    routes, trips, shapes, stops, stop_times,   \* the five tables (generator.py:71-75)
    trip_route_map,     \* generator.py:133-135
    kml,                \* FALSE until simplekml.Kml() and the root folders exist
    fwd_group_folder,   \* "Routes - Forward Path": sequence of folders
    bwd_group_folder,   \* "Routes - Backward Path": sequence of folders
    stops_group_folder, \* "Routes - Stops": sequence of folders
    ri,                 \* index of the route row the route loop is at
    route_trips,        \* generator.py:181
    directions,         \* generator.py:185
    di,                 \* index in directions of the direction loop
    line_color,         \* generator.py:169, of the latest route row
    stop_icon_color,    \* generator.py:172, of the latest route row
    rep_trip_id,        \* generator.py:228 in the latest direction: <<>> (None, or
                        \* not reached) or <<trip id>>
    ordered,            \* generator.py:236 in the latest direction (<<>> if not reached)
    metro_lines,        \* generator.py:255, 300
    output              \* the bytes returned: <<>> until returned

vars == <<pc, error, gtfs_url, github_token, output_format, net, resp, r_metro,
          routes, trips, shapes, stops, stop_times, trip_route_map, kml,
          fwd_group_folder, bwd_group_folder, stops_group_folder,
          ri, line_color, stop_icon_color, route_trips, directions, di,
          rep_trip_id, ordered, metro_lines, output>>

(***************************************************************************)
(* Bounds of the model.                                                    *)
(***************************************************************************)
MaxRoutes == 2
MaxTrips == 2

(***************************************************************************)
(* Cells and generic helpers.                                              *)
(***************************************************************************)
Num(v) == [k |-> "num", v |-> v]
NaN == [k |-> "nan", v |-> 0]
Str == [k |-> "str", v |-> 0]

IsNa(c) == c.k = "nan"

\* float(x) / astype(float): defined on numbers and on missing values (NaN
\* stays NaN); text that is not a number raises ValueError.
CanCastFloat(c) == c.k # "str"

Range(s) == {s[i] : i \in 1..Len(s)}

Reverse(s) == [i \in 1..Len(s) |-> s[Len(s) + 1 - i]]


(***************************************************************************)
(* Attribute resolution: gtfs_color_to_kml and get_route_name.             *)
(***************************************************************************)
HexDigits == <<"0", "1", "2", "3", "4", "5", "6", "7", "8", "9",
               "A", "B", "C", "D", "E", "F">>
LowerHex == <<"a", "b", "c", "d", "e", "f">>

IsHexDigit(c) == c \in Range(HexDigits) \cup Range(LowerHex)

HexValue(c) ==
    IF c \in Range(HexDigits)
    THEN (CHOOSE i \in 1..Len(HexDigits) : HexDigits[i] = c) - 1
    ELSE (CHOOSE i \in 1..Len(LowerHex) : LowerHex[i] = c) + 9

IsSpace(c) == c = " "
IsSign(c) == c \in {"+", "-"}

\* str.strip(): whitespace removed at both ends.
RECURSIVE LStrip(_)
LStrip(s) == IF s # <<>> /\ IsSpace(Head(s)) THEN LStrip(Tail(s)) ELSE s
Strip(s) == Reverse(LStrip(Reverse(LStrip(s))))

\* str.lstrip("#"): every leading "#" removed.
RECURSIVE LStripHash(_)
LStripHash(s) == IF s # <<>> /\ Head(s) = "#" THEN LStripHash(Tail(s)) ELSE s

\* int(p, 16) of a two-character string p: <<v>>, or <<>> for ValueError.
\* int() itself strips whitespace and accepts one sign before the digits.
IntBase16(p) ==
    CASE IsHexDigit(p[1]) /\ IsHexDigit(p[2]) -> <<16 * HexValue(p[1]) + HexValue(p[2])>>
      [] IsSpace(p[1]) /\ IsHexDigit(p[2]) -> <<HexValue(p[2])>>
      [] IsHexDigit(p[1]) /\ IsSpace(p[2]) -> <<HexValue(p[1])>>
      [] p[1] = "+" /\ IsHexDigit(p[2]) -> <<HexValue(p[2])>>
      [] p[1] = "-" /\ IsHexDigit(p[2]) -> <<0 - HexValue(p[2])>>
      [] OTHER -> <<>>

\* simplekml.Color.rgb(r, g, b); the named colors are their rgb values.
Rgb(r, g, b) == [r |-> r, g |-> g, b |-> b]
Blue == Rgb(0, 0, 255)
Red == Rgb(255, 0, 0)
Orange == Rgb(255, 165, 0)
White == Rgb(255, 255, 255)

\* A color cell: a string (isStr) of characters s, or a non-string (NaN, None,
\* a number).
StrVal(s) == [isStr |-> TRUE, s |-> s]
NoStr == [isStr |-> FALSE, s |-> <<>>]

\* gtfs_color_to_kml with the length test as "shorter than 6".
gtfs_color_to_kml_min_length(color_str, default) ==
    IF ~color_str.isStr THEN default
    ELSE LET c == LStripHash(Strip(color_str.s)) IN
         IF Len(c) < 6 THEN default
         ELSE LET r == IntBase16(SubSeq(c, 1, 2))
                  g == IntBase16(SubSeq(c, 3, 4))
                  b == IntBase16(SubSeq(c, 5, 6))
              IN IF r = <<>> \/ g = <<>> \/ b = <<>> THEN default
                 ELSE Rgb(r[1], g[1], b[1])

gtfs_color_to_kml(color_str, default) ==
    IF ~color_str.isStr THEN default
    ELSE LET c == LStripHash(Strip(color_str.s)) IN
         IF Len(c) # 6 THEN default
         ELSE LET r == IntBase16(SubSeq(c, 1, 2))
                  g == IntBase16(SubSeq(c, 3, 4))
                  b == IntBase16(SubSeq(c, 5, 6))
              IN IF r = <<>> \/ g = <<>> \/ b = <<>> THEN default
                 ELSE Rgb(r[1], g[1], b[1])

\* get_route_name: the stripped short name, else the stripped long name, else
\* the route id.  A name cell is a string cell whose text is blank when only
\* whitespace is left of it.
NameOf(cell) == Strip(cell.s)
get_route_name(route_row) ==
    IF route_row.route_short_name.isStr /\ NameOf(route_row.route_short_name) # <<>>
    THEN NameOf(route_row.route_short_name)
    ELSE IF route_row.route_long_name.isStr /\ NameOf(route_row.route_long_name) # <<>>
    THEN NameOf(route_row.route_long_name)
    ELSE route_row.route_id


(***************************************************************************)
(* The GTFS archive: what the feed URL can answer with.                    *)
(***************************************************************************)
NA == "<NA>"            \* a missing identifier (pd.isna)

RouteId(i) == <<"R", HexDigits[i + 1]>>
TripId(i) == <<"T", HexDigits[i + 1]>>

\* The route rows of a feed, by position: row 1 has a short name and a valid
\* color, row 2 a blank short name, a long name, an unparseable color and a
\* "#"-prefixed text color, every third row none of the optional fields.
RouteRow(i) ==
    CASE i % 3 = 1 ->
           [route_id |-> RouteId(i), route_short_name |-> StrVal(<<"1">>),
            route_long_name |-> NoStr,
            route_color |-> StrVal(<<"F", "F", "0", "0", "0", "0">>),
            route_text_color |-> NoStr]
      [] i % 3 = 2 ->
           [route_id |-> RouteId(i), route_short_name |-> StrVal(<<" ">>),
            route_long_name |-> StrVal(<<"M">>),
            route_color |-> StrVal(<<"r", "e", "d">>),
            route_text_color |-> StrVal(<<"#", "0", "0", "F", "F", "0", "0">>)]
      [] OTHER ->
           [route_id |-> RouteId(i), route_short_name |-> NoStr,
            route_long_name |-> NoStr, route_color |-> NoStr,
            route_text_color |-> NoStr]

RoutesTables == {[i \in 1..n |-> RouteRow(i)] : n \in 0..MaxRoutes}

\* Trips of the two first routes: with shape S1 in direction 0, 1 or with no
\* direction, or with no shape id.
TripRows(i) ==
    [trip_id : {TripId(i)}, route_id : {RouteId(1), RouteId(2)},
     shape_id : {"S1"}, direction_id : {Num(0), Num(1), NaN}]
    \cup [trip_id : {TripId(i)}, route_id : {RouteId(1), RouteId(2)},
          shape_id : {NA}, direction_id : {Num(0)}]
\* trips.txt without a direction_id column.
TripRowsNoDir(i) ==
    [trip_id : {TripId(i)}, route_id : {RouteId(1), RouteId(2)},
     shape_id : {"S1", NA}]

\* The tables of at most Len(rows) rows whose i-th row is one of rows[i].
TablesOf(rows) ==
    UNION {{t \in [1..n -> UNION {rows[i] : i \in 1..n}] :
              \A i \in 1..n : t[i] \in rows[i]} : n \in 0..Len(rows)}

ShapePt(id, seq, lon, lat) ==
    [shape_id |-> id, shape_pt_sequence |-> seq, shape_pt_lon |-> lon,
     shape_pt_lat |-> lat]

\* shapes.txt: S1 with three points out of order; with one point; with a
\* longitude that is no number; and a table without S1.
ShapesTables ==
    { <<ShapePt("S1", 2, Num(20), Num(21)), ShapePt("S2", 1, Num(90), Num(91)),
        ShapePt("S1", 1, Num(10), Num(11)), ShapePt("S1", 3, Num(30), Num(31))>>,
      <<ShapePt("S1", 1, Num(10), Num(11))>>,
      <<ShapePt("S1", 1, Num(10), Num(11)), ShapePt("S1", 2, Str, Num(21))>>,
      <<ShapePt("S2", 1, Num(90), Num(91)), ShapePt("S2", 2, Num(92), Num(93))>> }

StopRow(id, name, lon, lat) ==
    [stop_id |-> id, stop_name |-> name, stop_lon |-> lon, stop_lat |-> lat]

\* stops.txt: A is listed twice, B has a longitude that is no number, D is
\* well formed; stop C is referenced by stop times only.
StopsTable ==
    <<StopRow("A", "Stop A", Num(1), Num(2)), StopRow("B", "Stop B", Str, Num(4)),
      StopRow("A", "Stop A bis", Num(5), Num(6)),
      StopRow("D", "Stop D", Num(7), Num(8))>>

StopTime(trip, stop, seq) ==
    [trip_id |-> trip, stop_id |-> stop, stop_sequence |-> seq]

\* stop_times.txt: empty; or the first trip visiting C, A, B and A again, and
\* the second trip with more rows, none with a number for its sequence.
StopTimesTables ==
    { <<>>,
      <<StopTime(TripId(1), "A", Num(2)), StopTime(TripId(2), "D", Str),
        StopTime(TripId(1), "C", Num(1)), StopTime(TripId(2), "B", Str),
        StopTime(TripId(1), "B", Num(3)), StopTime(TripId(2), "A", Str),
        StopTime(TripId(1), "A", Num(4)), StopTime(TripId(2), "D", Str),
        StopTime(TripId(2), "D", NaN)>> }

Feed(ok, r, t, hasDir, sh, st) ==
    [problem |-> ok, routes |-> r, trips |-> t, has_direction_id |-> hasDir,
     shapes |-> sh, stops |-> StopsTable, stop_times |-> st]

\* Archives that fail to load or validate: not a zip, a table missing, a
\* required column missing.
BadFeeds ==
    {Feed(p, <<>>, <<>>, TRUE, <<>>, <<>>) :
        p \in {"BadZipFile", "table missing", "shapes column missing",
               "stop_sequence missing"}}

GoodFeeds ==
    {Feed("", r, t, TRUE, sh, st) :
        r \in RoutesTables, t \in TablesOf([i \in 1..MaxTrips |-> TripRows(i)]),
        sh \in ShapesTables, st \in StopTimesTables}
    \cup
    {Feed("", r, t, FALSE, sh, st) :
        r \in RoutesTables, t \in TablesOf([i \in 1..MaxTrips |-> TripRowsNoDir(i)]),
        sh \in ShapesTables, st \in StopTimesTables}

Feeds == GoodFeeds \cup BadFeeds


(***************************************************************************)
(* pandas operations the generator uses.                                   *)
(***************************************************************************)
\* drop_duplicates(subset=["stop_id"], keep="first"): the first row of every
\* stop id, in order.
RECURSIVE DropDuplicates(_, _)
DropDuplicates(s, seen) ==
    IF s = <<>> THEN <<>>
    ELSE IF Head(s).stop_id \in seen THEN DropDuplicates(Tail(s), seen)
    ELSE <<Head(s)>> \o DropDuplicates(Tail(s), seen \cup {Head(s).stop_id})

\* sort_values: every arrangement of the rows s that is ascending in their
\* keys (keys[i] the key of s[i]).  The default sort (quicksort) is not
\* stable, so rows with equal keys come in any order.
SortValues(s, keys) ==
    {[i \in 1..Len(s) |-> s[p[i]]] : p \in
        {q \in Permutations(1..Len(s)) :
            \A i \in 1..(Len(s) - 1) : keys[q[i]] <= keys[q[i + 1]]}}

\* sorted(set of numbers)
RECURSIVE Sorted(_)
Sorted(S) ==
    IF S = {} THEN <<>>
    ELSE LET m == CHOOSE x \in S : \A y \in S : x <= y
         IN <<m>> \o Sorted(S \ {m})

RECURSIVE Flatten(_)
Flatten(ss) == IF ss = <<>> THEN <<>> ELSE Head(ss) \o Flatten(Tail(ss))

(***************************************************************************)
(* PREPARE TRIP MAP and the two helpers over stop_times.                   *)
(***************************************************************************)
\* trips[cols].copy(), with direction_id = 0 when trips.txt has no such column.
TripRouteMap(feed) ==
    [i \in 1..Len(feed.trips) |->
        [trip_id |-> feed.trips[i].trip_id, route_id |-> feed.trips[i].route_id,
         shape_id |-> feed.trips[i].shape_id,
         direction_id |-> IF feed.has_direction_id
                          THEN feed.trips[i].direction_id ELSE Num(0)]]

\* The number of stop_times rows of a trip: groupby("trip_id").size().
StopTimeCount(t) == Len(SelectSeq(stop_times, LAMBDA r : r.trip_id = t))

\* pick_representative_trip_id with the counts sorted ascending.
pick_representative_ascending(trip_ids) ==
    LET st == SelectSeq(stop_times, LAMBDA r : r.trip_id \in trip_ids)
        ids == {r.trip_id : r \in Range(st)}
    IN IF st = <<>> THEN {<<>>}
       ELSE {<<t>> : t \in {u \in ids :
                        \A w \in ids : StopTimeCount(u) <= StopTimeCount(w)}}

\* pick_representative_trip_id: the values it can return, <<>> for None.  The
\* counts are sorted descending by a sort that is not stable, so the first
\* entry is any of the trips with the greatest count.
pick_representative_trip_id(trip_ids) ==
    LET st == SelectSeq(stop_times, LAMBDA r : r.trip_id \in trip_ids)
        ids == {r.trip_id : r \in Range(st)}
    IN IF st = <<>> THEN {<<>>}
       ELSE {<<t>> : t \in {u \in ids :
                        \A w \in ids : StopTimeCount(w) <= StopTimeCount(u)}}

\* One stop_times row joined to stops (how="left"): a row per matching stop,
\* or one row of missing values.
MergeStop(r) ==
    LET m == SelectSeq(stops, LAMBDA x : x.stop_id = r.stop_id)
    IN IF m = <<>>
       THEN <<[stop_id |-> r.stop_id, stop_sequence |-> r.stop_sequence.v,
               stop_name |-> "nan", stop_lon |-> NaN, stop_lat |-> NaN]>>
       ELSE [i \in 1..Len(m) |->
               [stop_id |-> r.stop_id, stop_sequence |-> r.stop_sequence.v,
                stop_name |-> m[i].stop_name, stop_lon |-> m[i].stop_lon,
                stop_lat |-> m[i].stop_lat]]

\* get_ordered_stops_for_trip without the sort.
get_ordered_stops_unsorted(trip_id) ==
    LET st == SelectSeq(stop_times, LAMBDA r : r.trip_id = trip_id)
        numeric == SelectSeq(st, LAMBDA r : r.stop_sequence.k = "num")
    IN IF st = <<>> THEN {<<>>}
       ELSE {Flatten([i \in 1..Len(numeric) |-> MergeStop(numeric[i])])}

\* get_ordered_stops_for_trip: the frames it can return.
get_ordered_stops_for_trip(trip_id) ==
    LET st == SelectSeq(stop_times, LAMBDA r : r.trip_id = trip_id)
        numeric == SelectSeq(st, LAMBDA r : r.stop_sequence.k = "num")
    IN IF st = <<>> THEN {<<>>}
       ELSE {Flatten([i \in 1..Len(srt) |-> MergeStop(srt[i])]) :
                srt \in SortValues(numeric,
                           [i \in 1..Len(numeric) |-> numeric[i].stop_sequence.v])}

(***************************************************************************)
(* The document: folders of line and point features.                       *)
(***************************************************************************)
RouteLineWidth == 4
MetroLineWidth == 5

Folder(name) == [name |-> name, lines |-> <<>>]
StopsFolder(name) ==
    [name |-> name,
     sub |-> <<[name |-> "Stops - FWD", points |-> <<>>],
               [name |-> "Stops - BWD", points |-> <<>>]>>]
Line(name, coords, width, color) ==
    [name |-> name, coords |-> coords, width |-> width, color |-> color]
Point(name, lon, lat, color) ==
    [name |-> name, coords |-> <<lon, lat>>, color |-> color]

DirLabel(dir_int) == IF dir_int = 0 THEN <<"F", "W", "D">> ELSE <<"B", "W", "D">>


(***************************************************************************)
(* create_kmz (main.py) and the start of generate_kmz_file.                *)
(***************************************************************************)
tables == <<routes, trips, shapes, stops, stop_times, trip_route_map>>
document == <<kml, fwd_group_folder, bwd_group_folder, stops_group_folder>>
loop == <<ri, line_color, stop_icon_color, route_trips, directions, di,
          rep_trip_id, ordered>>
call == <<gtfs_url, github_token, output_format>>

Init ==
    /\ pc = "idle" /\ error = ""
    /\ gtfs_url = "" /\ github_token = "" /\ output_format = ""
    /\ net = <<>> /\ resp = <<>> /\ r_metro = <<>>
    /\ routes = <<>> /\ trips = <<>> /\ shapes = <<>> /\ stops = <<>>
    /\ stop_times = <<>> /\ trip_route_map = <<>>
    /\ kml = FALSE
    /\ fwd_group_folder = <<>> /\ bwd_group_folder = <<>> /\ stops_group_folder = <<>>
    /\ ri = 1 /\ line_color = Blue /\ stop_icon_color = Blue
    /\ route_trips = <<>> /\ directions = <<>> /\ di = 1
    /\ rep_trip_id = <<>> /\ ordered = <<>>
    /\ metro_lines = <<>> /\ output = <<>>

Raise(e) == pc' = "raised" /\ error' = e

Urls == {"", "https://feed"}
Tokens == {"", "token"}

\* POST /generate-kmz.  header is the github-token header, env the GITHUB_TOKEN
\* of the environment, url the request's gtfs_url (or its GTFS_URL default).
create_kmz(header, env, url, fmt) ==
    /\ pc = "idle"
    /\ LET final_github_token == IF header # "" THEN header ELSE env IN
       /\ github_token' = final_github_token
       /\ gtfs_url' = url
       /\ output_format' = fmt
       /\ IF final_github_token = "" \/ url = "" \/ fmt \notin {"kmz", "kml"}
          THEN Raise("HTTPException 400")
          ELSE pc' = "config" /\ error' = error
    /\ UNCHANGED <<net, resp, r_metro, tables, document, loop, metro_lines, output>>

\* generate_kmz_file called by something other than create_kmz.
generate_kmz_file(url, token, fmt) ==
    /\ pc = "idle"
    /\ gtfs_url' = url /\ github_token' = token /\ output_format' = fmt
    /\ pc' = "config"
    /\ UNCHANGED <<error, net, resp, r_metro, tables, document, loop, metro_lines,
                   output>>

\* ConfigCheck without the check of the token.
ConfigCheckUrlOnly ==
    /\ pc = "config"
    /\ IF gtfs_url = "" THEN Raise("RuntimeError GTFS_URL is missing")
       ELSE pc' = "gtfs_get" /\ error' = error
    /\ UNCHANGED <<call, net, resp, r_metro, tables, document, loop, metro_lines,
                   output>>

\* generator.py:16-30
ConfigCheck ==
    /\ pc = "config"
    /\ IF gtfs_url = "" THEN Raise("RuntimeError GTFS_URL is missing")
       ELSE IF github_token = "" THEN Raise("RuntimeError GITHUB_TOKEN is missing")
       ELSE pc' = "gtfs_get" /\ error' = error
    /\ UNCHANGED <<call, net, resp, r_metro, tables, document, loop, metro_lines,
                   output>>

(***************************************************************************)
(* DOWNLOAD GTFS, read the tables, VALIDATION, PREPARE TRIP MAP.           *)
(***************************************************************************)
\* client.get(GTFS_URL) is issued.
GtfsGet ==
    /\ pc = "gtfs_get"
    /\ net' = Append(net, "GET gtfs")
    /\ pc' = "gtfs_wait"
    /\ UNCHANGED <<error, call, resp, r_metro, tables, document, loop, metro_lines,
                   output>>

\* The request resolves: a transport or status error, or an archive.
GtfsResolve(answers) ==
    /\ pc = "gtfs_wait"
    /\ \/ /\ Raise("HTTPError gtfs")
          /\ resp' = resp
       \/ \E feed \in answers :
             /\ resp' = <<feed>>
             /\ pc' = "unzip" /\ error' = error
    /\ UNCHANGED <<call, net, r_metro, tables, document, loop, metro_lines, output>>

\* generator.py:62-79
ReadGtfs ==
    /\ pc = "unzip"
    /\ LET feed == resp[1] IN
       IF feed.problem = "BadZipFile"
       THEN Raise("RuntimeError Failed to unzip GTFS data") /\ UNCHANGED tables
       ELSE IF feed.problem = "table missing"
       THEN Raise("FileNotFoundError") /\ UNCHANGED tables
       ELSE /\ routes' = feed.routes /\ trips' = feed.trips
            /\ shapes' = feed.shapes /\ stops' = feed.stops
            /\ stop_times' = feed.stop_times
            /\ trip_route_map' = trip_route_map
            /\ pc' = "validate" /\ error' = error
    /\ UNCHANGED <<call, net, resp, r_metro, document, loop, metro_lines, output>>

\* generator.py:117-135
Validate ==
    /\ pc = "validate"
    /\ LET feed == resp[1] IN
       IF feed.problem = "shapes column missing"
       THEN Raise("ValueError shapes.txt missing columns")
            /\ trip_route_map' = trip_route_map
       ELSE IF feed.problem = "stop_sequence missing"
       THEN Raise("ValueError stop_times.txt missing required column")
            /\ trip_route_map' = trip_route_map
       ELSE /\ trip_route_map' = TripRouteMap(feed)
            /\ pc' = "build" /\ error' = error
    /\ UNCHANGED <<call, net, resp, r_metro, routes, trips, shapes, stops, stop_times,
                   document, loop, metro_lines, output>>


(***************************************************************************)
(* BUILD KML: the root folders, the route loop and the direction loop.     *)
(***************************************************************************)
\* generator.py:157-162
BuildRoot ==
    /\ pc = "build"
    /\ kml' = TRUE
    /\ fwd_group_folder' = <<>> /\ bwd_group_folder' = <<>>
    /\ stops_group_folder' = <<>>
    /\ ri' = 1
    /\ pc' = "routes"
    /\ UNCHANGED <<error, call, net, resp, r_metro, tables, line_color,
                   stop_icon_color, route_trips, directions, di, rep_trip_id, ordered,
                   metro_lines, output>>

RouteTrips(route_id) == SelectSeq(trip_route_map, LAMBDA r : r.route_id = route_id)

\* sorted(route_trips["direction_id"].dropna().unique())
Directions(rt) ==
    Sorted({r.direction_id.v : r \in {x \in Range(rt) : ~IsNa(x.direction_id)}})

\* NewRouteFolders with the folders created after the check for an empty
\* route_trips.
NewRouteFoldersIfTrips(rt, route_name) ==
    IF rt = <<>> THEN [fwd |-> <<>>, bwd |-> <<>>, stops |-> <<>>]
    ELSE [fwd |-> <<Folder(route_name)>>, bwd |-> <<Folder(route_name)>>,
          stops |-> <<StopsFolder(route_name)>>]

\* generator.py:174-179: the folders the iteration of a route creates under
\* the three top-level folders, whatever trips rt the route has.
NewRouteFolders(rt, route_name) ==
    [fwd |-> <<Folder(route_name)>>, bwd |-> <<Folder(route_name)>>,
     stops |-> <<StopsFolder(route_name)>>]

\* generator.py:164-185: one route row, up to the direction loop.
RouteBegin ==
    /\ pc = "routes" /\ ri <= Len(routes)
    /\ LET route_row == routes[ri]
           route_name == get_route_name(route_row)
           rt == RouteTrips(route_row.route_id)
           new == NewRouteFolders(rt, route_name)
       IN /\ fwd_group_folder' = fwd_group_folder \o new.fwd
          /\ bwd_group_folder' = bwd_group_folder \o new.bwd
          /\ stops_group_folder' = stops_group_folder \o new.stops
          /\ line_color' = gtfs_color_to_kml(route_row.route_color, Blue)
          /\ stop_icon_color' =
                gtfs_color_to_kml(route_row.route_text_color, line_color')
          /\ route_trips' = rt
          /\ IF rt = <<>>
             THEN /\ ri' = ri + 1 /\ pc' = pc
                  /\ UNCHANGED <<directions, di>>
             ELSE /\ directions' = Directions(rt) /\ di' = 1
                  /\ ri' = ri /\ pc' = "directions"
    /\ UNCHANGED <<error, call, net, resp, r_metro, tables, kml, rep_trip_id, ordered,
                   metro_lines, output>>

DirTrips(rt, direction) ==
    SelectSeq(rt, LAMBDA r : ~IsNa(r.direction_id) /\ r.direction_id.v = direction)

RouteShape(shape_id) == SelectSeq(shapes, LAMBDA r : r.shape_id = shape_id)

\* TooFewCoords with the threshold off by one.
TooFewCoordsOffByOne(coords) == Len(coords) < 1

\* len(coords) < 2
TooFewCoords(coords) == Len(coords) < 2

\* generator.py:232-249: the points of the frames get_ordered_stops_for_trip
\* can return, with the frame after drop_duplicates.
StopPoints(rep, color) ==
    {LET ord == DropDuplicates(merged, {})
         ok == SelectSeq(ord, LAMBDA r : CanCastFloat(r.stop_lon)
                                         /\ CanCastFloat(r.stop_lat))
     IN [ordered |-> ord,
         points |-> [i \in 1..Len(ok) |->
                       Point(ok[i].stop_name, ok[i].stop_lon, ok[i].stop_lat, color)]] :
        merged \in get_ordered_stops_for_trip(rep)}

Outcome(raised, line, rep, ord, points) ==
    [raised |-> raised, line |-> line, rep |-> rep, ordered |-> ord,
     points |-> points]
Skipped == Outcome(FALSE, <<>>, <<>>, <<>>, <<>>)

\* generator.py:188-249: what one pass of the direction loop can do: raise,
\* or emit at most one line and the stop points.
DirectionBody(route_row, rt, direction) ==
    LET dir_trips == DirTrips(rt, direction)
        shape_id == dir_trips[1].shape_id
        route_shape == RouteShape(shape_id)
        name == get_route_name(route_row) \o <<" ">> \o DirLabel(direction)
    IN IF dir_trips = <<>> THEN {Skipped}
       ELSE IF shape_id = NA THEN {Skipped}
       ELSE IF route_shape = <<>> THEN {Skipped}
       ELSE IF \E r \in Range(route_shape) :
                  ~CanCastFloat(r.shape_pt_lon) \/ ~CanCastFloat(r.shape_pt_lat)
       THEN {Outcome(TRUE, <<>>, <<>>, <<>>, <<>>)}
       ELSE IF TooFewCoords(route_shape) THEN {Skipped}
       ELSE UNION {
              LET coords == [i \in 1..Len(srt) |->
                               <<srt[i].shape_pt_lon, srt[i].shape_pt_lat>>]
                  ls == <<Line(name, coords, RouteLineWidth, line_color)>>
              IN UNION {
                   IF rep = <<>> THEN {Outcome(FALSE, ls, rep, <<>>, <<>>)}
                   ELSE {Outcome(FALSE, ls, rep, sp.ordered,
                                 IF sp.ordered = <<>> THEN <<>> ELSE sp.points) :
                           sp \in StopPoints(rep[1], stop_icon_color)} :
                   rep \in pick_representative_trip_id(
                              {r.trip_id : r \in Range(dir_trips)})} :
              srt \in SortValues(route_shape,
                        [i \in 1..Len(route_shape) |->
                            route_shape[i].shape_pt_sequence])}

\* One pass of the direction loop, for directions[di], into the folders the
\* route's iteration created (the last of each top-level folder).
Direction ==
    /\ pc = "directions" /\ di <= Len(directions)
    /\ \E o \in DirectionBody(routes[ri], route_trips, directions[di]) :
         LET fwd == directions[di] = 0
             nf == Len(fwd_group_folder)
             nb == Len(bwd_group_folder)
             ns == Len(stops_group_folder)
             k == IF fwd THEN 1 ELSE 2
         IN IF o.raised
            THEN /\ Raise("ValueError could not convert string to float")
                 /\ UNCHANGED <<document, loop>>
            ELSE /\ fwd_group_folder' =
                       IF fwd /\ nf > 0
                       THEN [fwd_group_folder EXCEPT ![nf].lines = @ \o o.line]
                       ELSE fwd_group_folder
                 /\ bwd_group_folder' =
                       IF ~fwd /\ nb > 0
                       THEN [bwd_group_folder EXCEPT ![nb].lines = @ \o o.line]
                       ELSE bwd_group_folder
                 /\ stops_group_folder' =
                       IF ns > 0
                       THEN [stops_group_folder EXCEPT
                               ![ns].sub[k].points = @ \o o.points]
                       ELSE stops_group_folder
                 /\ rep_trip_id' = o.rep /\ ordered' = o.ordered
                 /\ di' = di + 1
                 /\ UNCHANGED <<pc, error, kml, ri, line_color, stop_icon_color,
                                route_trips, directions>>
    /\ UNCHANGED <<call, net, resp, r_metro, tables, metro_lines, output>>

\* The direction loop is exhausted: the next route row.
DirectionsEnd ==
    /\ pc = "directions" /\ di > Len(directions)
    /\ ri' = ri + 1
    /\ pc' = "routes"
    /\ UNCHANGED <<error, call, net, resp, r_metro, tables, document, line_color,
                   stop_icon_color, route_trips, directions, di, rep_trip_id, ordered,
                   metro_lines, output>>

\* The route loop is exhausted.
RoutesEnd ==
    /\ pc = "routes" /\ ri > Len(routes)
    /\ pc' = "metro_get"
    /\ UNCHANGED <<error, call, net, resp, r_metro, tables, document, loop,
                   metro_lines, output>>


(***************************************************************************)
(* DOWNLOAD METRO KMZ, parse its placemarks, merge them, SAVE OUTPUT.      *)
(***************************************************************************)
MaxPlacemarks == 2
MaxTokens == 2

Letters == <<"A", "B", "D", "E", "G", "L", "N", "O", "R", "S", "U">>
LowerLetters == <<"a", "b", "d", "e", "g", "l", "n", "o", "r", "s", "u">>

\* str.lower(), one character
LowerChar(c) ==
    IF c \in Range(Letters)
    THEN LowerLetters[CHOOSE i \in 1..Len(Letters) : Letters[i] = c]
    ELSE c
Lower(s) == [i \in 1..Len(s) |-> LowerChar(s[i])]

\* pat in s
Contains(s, pat) ==
    \E i \in 0..(Len(s) - Len(pat)) : SubSeq(s, i + 1, i + Len(pat)) = pat

\* A placemark: its name text (NoStr: no name element, or no text), whether it
\* holds a LineString, and the whitespace-separated tokens of the coordinates
\* text (has_text FALSE: no coordinates element, or no text), each token the
\* sequence of its comma-separated fields.
Placemark(name, linestring, has_text, tokens) ==
    [name |-> name, linestring |-> linestring, has_text |-> has_text,
     tokens |-> tokens]

\* The tokens a coordinates text can hold at position i: lon,lat or a single
\* field at the odd positions; lon,lat,alt or a longitude that is no number
\* at the even ones.
TokensAt(i) ==
    IF i % 2 = 1
    THEN { <<Num(10 * i), Num(10 * i + 1)>>, <<Num(10 * i)>> }
    ELSE { <<Num(10 * i), Num(10 * i + 1), Num(0)>>, <<Str, Num(10 * i + 1)>> }

SegmentNames ==
    { NoStr, StrVal(<<" ", "R", "e", "d", " ", "L", "o", "o", "p", " ">>),
      StrVal(<<"O", "R", "A", "N", "G", "E">>) }

Placemarks ==
    {Placemark(n, FALSE, FALSE, <<>>) : n \in SegmentNames}
    \cup {Placemark(n, TRUE, FALSE, <<>>) : n \in SegmentNames}
    \cup {Placemark(n, TRUE, TRUE, t) :
            n \in SegmentNames, t \in TablesOf([i \in 1..MaxTokens |-> TokensAt(i)])}

Kmz(problem, placemarks) == [problem |-> problem, placemarks |-> placemarks]

\* Every archive the overlay URL can answer with, up to the bounds.
Overlays ==
    {Kmz(p, <<>>) : p \in {"BadZipFile", "no kml"}}
    \cup {Kmz("", pms) :
            pms \in UNION {[1..n -> Placemarks] : n \in 0..MaxPlacemarks}}

\* The archives the whole pipeline is run with.
FewOverlays ==
    { Kmz("no kml", <<>>),
      Kmz("", <<Placemark(StrVal(<<"R", "e", "d">>), TRUE, TRUE,
                          <<<<Num(10), Num(11)>>, <<Num(20), Num(21)>>>>),
                Placemark(NoStr, TRUE, TRUE, <<<<Num(10), Num(11)>>>>)>>) }

\* MetroGet with the merge started without waiting for the response.
MetroGetNoAwait ==
    /\ pc = "metro_get"
    /\ net' = Append(net, "GET metro")
    /\ pc' = "merge"
    /\ UNCHANGED <<error, call, resp, r_metro, tables, document, loop, metro_lines,
                   output>>

\* client.get(GITHUB_API_METRO_URL) is issued.
MetroGet ==
    /\ pc = "metro_get"
    /\ net' = Append(net, "GET metro")
    /\ pc' = "metro_wait"
    /\ UNCHANGED <<error, call, resp, r_metro, tables, document, loop, metro_lines,
                   output>>

\* The request resolves: a transport or status error, or an archive.
MetroResolve(answers) ==
    /\ pc = "metro_wait"
    /\ \/ /\ Raise("HTTPError metro")
          /\ r_metro' = r_metro
       \/ \E kmz \in answers :
             /\ r_metro' = <<kmz>>
             /\ pc' = "metro_parse" /\ error' = error
    /\ UNCHANGED <<call, net, resp, tables, document, loop, metro_lines, output>>

\* generator.py:288-297: the coordinates parsed from the tokens.
ParseCoords(tokens) ==
    LET good == SelectSeq(tokens, LAMBDA parts :
                    Len(parts) >= 2 /\ parts[1].k = "num" /\ parts[2].k = "num")
    IN [i \in 1..Len(good) |-> <<good[i][1], good[i][2]>>]

\* generator.py:279
SegmentName(pm) ==
    IF pm.name.isStr /\ pm.name.s # <<>> THEN Strip(pm.name.s)
    ELSE <<"M", "e", "t", "r", "o", " ", "S", "e", "g", "m", "e", "n", "t">>

\* len(coords) >= 2
Retained(coords) == Len(coords) >= 2

\* generator.py:277-300: the (name, coords) pairs appended to metro_lines.
ParsePlacemarks(pms) ==
    LET seg(pm) == [name |-> SegmentName(pm), coords |-> ParseCoords(pm.tokens)]
        kept == SelectSeq(pms, LAMBDA pm :
                    pm.linestring /\ pm.has_text /\ pm.tokens # <<>>
                    /\ Retained(ParseCoords(pm.tokens)))
    IN [i \in 1..Len(kept) |-> seg(kept[i])]

\* generator.py:266-300
MetroParse ==
    /\ pc = "metro_parse"
    /\ LET kmz == r_metro[1] IN
       IF kmz.problem = "BadZipFile"
       THEN Raise("BadZipFile") /\ metro_lines' = metro_lines
       ELSE IF kmz.problem = "no kml"
       THEN Raise("RuntimeError No .kml file found inside Metro KMZ")
            /\ metro_lines' = metro_lines
       ELSE /\ metro_lines' = ParsePlacemarks(kmz.placemarks)
            /\ pc' = "merge" /\ error' = error
    /\ UNCHANGED <<call, net, resp, r_metro, tables, document, loop, output>>

\* generator.py:303-309
MetroColor(name) ==
    IF Contains(Lower(name), <<"r", "e", "d">>) THEN Red
    ELSE IF Contains(Lower(name), <<"o", "r", "a", "n", "g", "e">>) THEN Orange
    ELSE White

\* generator.py:311-317: the folder a segment adds to the forward folder.
MetroFwdFolder(seg) ==
    [name |-> seg.name,
     lines |-> <<Line(seg.name, seg.coords, MetroLineWidth, MetroColor(seg.name))>>]

\* MetroBwdFolder with the coordinates not reversed.
MetroBwdFolderNotReversed(seg) ==
    [name |-> seg.name,
     lines |-> <<Line(seg.name, seg.coords, MetroLineWidth, MetroColor(seg.name))>>]

\* generator.py:312, 319-322: the folder it adds to the backward folder.
MetroBwdFolder(seg) ==
    [name |-> seg.name,
     lines |-> <<Line(seg.name, Reverse(seg.coords), MetroLineWidth,
                      MetroColor(seg.name))>>]

\* generator.py:302-322: the whole merge loop.
MetroMerge ==
    /\ pc = "merge"
    /\ fwd_group_folder' = fwd_group_folder \o
          [i \in 1..Len(metro_lines) |-> MetroFwdFolder(metro_lines[i])]
    /\ bwd_group_folder' = bwd_group_folder \o
          [i \in 1..Len(metro_lines) |-> MetroBwdFolder(metro_lines[i])]
    /\ pc' = "save"
    /\ UNCHANGED <<error, call, net, resp, r_metro, tables, kml, stops_group_folder,
                   loop, metro_lines, output>>

\* generator.py:328-337: the document rendered, as text or as the doc.kml
\* entry of a zip.
Save ==
    /\ pc = "save"
    /\ output' = <<[container |-> IF output_format = "kml" THEN "kml" ELSE "kmz",
                    fwd |-> fwd_group_folder, bwd |-> bwd_group_folder,
                    stops |-> stops_group_folder]>>
    /\ pc' = "done"
    /\ UNCHANGED <<error, call, net, resp, r_metro, tables, document, loop,
                   metro_lines>>

(***************************************************************************)
(* The whole pipeline.                                                     *)
(***************************************************************************)
Formats == {"kmz", "kml"}

Next ==
    \/ \E header \in Tokens, env \in Tokens, url \in Urls, fmt \in Formats \cup {"zip"} :
          create_kmz(header, env, url, fmt)
    \/ \E url \in Urls, token \in Tokens, fmt \in Formats :
          generate_kmz_file(url, token, fmt)
    \/ ConfigCheck
    \/ GtfsGet
    \/ GtfsResolve(Feeds)
    \/ ReadGtfs
    \/ Validate
    \/ BuildRoot
    \/ RouteBegin
    \/ Direction
    \/ DirectionsEnd
    \/ RoutesEnd
    \/ MetroGet
    \/ MetroResolve(FewOverlays)
    \/ MetroParse
    \/ MetroMerge
    \/ Save

Spec == Init /\ [][Next]_vars


(***************************************************************************)
(* The route loop on one feed: the state generate_kmz_file is in when the  *)
(* GTFS archive feed has been fetched, read and validated and the root     *)
(* folders exist (the state BuildRoot leaves).                             *)
(***************************************************************************)
AtRouteLoop(feed) ==
    /\ pc = "routes" /\ error = ""
    /\ gtfs_url = "https://feed" /\ github_token = "token" /\ output_format = "kmz"
    /\ net = <<"GET gtfs">> /\ resp = <<feed>> /\ r_metro = <<>>
    /\ routes = feed.routes /\ trips = feed.trips /\ shapes = feed.shapes
    /\ stops = feed.stops /\ stop_times = feed.stop_times
    /\ trip_route_map = TripRouteMap(feed)
    /\ kml = TRUE
    /\ fwd_group_folder = <<>> /\ bwd_group_folder = <<>> /\ stops_group_folder = <<>>
    /\ ri = 1 /\ line_color = Blue /\ stop_icon_color = Blue
    /\ route_trips = <<>> /\ directions = <<>> /\ di = 1
    /\ rep_trip_id = <<>> /\ ordered = <<>>
    /\ metro_lines = <<>> /\ output = <<>>

(***************************************************************************)
(* gtfs_color_to_kml on every short string: a feed of one route whose      *)
(* route_color is FF0000 and whose route_text_color is the string.         *)
(***************************************************************************)
MaxColorLen == 7

ColorAlphabet == {"#", " ", "+", "F", "G"}
ColorStrings == UNION {[1..n -> ColorAlphabet] : n \in 0..MaxColorLen}

ColorFeed(c) ==
    Feed("", <<[route_id |-> RouteId(1), route_short_name |-> NoStr,
                route_long_name |-> NoStr,
                route_color |-> StrVal(<<"F", "F", "0", "0", "0", "0">>),
                route_text_color |-> c]>>,
         <<>>, TRUE, <<>>, <<>>)

InitColor == \E c \in {NoStr} \cup {StrVal(x) : x \in ColorStrings} :
                AtRouteLoop(ColorFeed(c))
NextColor == RouteBegin
SpecColor == InitColor /\ [][NextColor]_vars

\* The strings of exactly 6 hex digits, with or without one leading "#".
SixHexDigits(x) ==
    \/ Len(x) = 6 /\ \A i \in 1..6 : IsHexDigit(x[i])
    \/ Len(x) = 7 /\ x[1] = "#" /\ \A i \in 2..7 : IsHexDigit(x[i])

\* The strings the code takes for a color: surrounding whitespace and every
\* leading "#" removed, 6 characters are left, each of the three pairs being
\* two hex digits, or one hex digit after a sign or next to a space.
TakenForColor(x) ==
    LET c == LStripHash(Strip(x))
        OkPair(a, b) == \/ IsHexDigit(a) /\ IsHexDigit(b)
                        \/ (IsSign(a) \/ IsSpace(a)) /\ IsHexDigit(b)
                        \/ IsHexDigit(a) /\ IsSpace(b)
    IN Len(c) = 6 /\ OkPair(c[1], c[2]) /\ OkPair(c[3], c[4]) /\ OkPair(c[5], c[6])

ColorResolved == pc = "routes" /\ ri = 2

\* C8 as claimed: a text color that is not 6 hex digits, with or without one
\* leading "#", resolves to the fallback it was given, the line color.
C8_NotSixHexGivesFallback ==
    (ColorResolved /\ routes[1].route_text_color.isStr
        /\ ~SixHexDigits(routes[1].route_text_color.s))
    => stop_icon_color = line_color

\* C8 as amended: a text color that, once surrounding whitespace and every
\* leading "#" are removed, is not 6 characters in three pairs that int(., 16)
\* accepts, resolves to the fallback it was given, the line color.
C8_NotTakenForColorGivesFallback ==
    (ColorResolved /\ routes[1].route_text_color.isStr
        /\ ~TakenForColor(routes[1].route_text_color.s))
    => (stop_icon_color = line_color /\ line_color = Red)

\* "#FFFFFG" has resolved to the line color, red.
C8_Witness ==
    /\ ColorResolved
    /\ routes[1].route_text_color = StrVal(<<"#", "F", "F", "F", "F", "F", "G">>)
    /\ stop_icon_color = Red

(***************************************************************************)
(* pick_representative_trip_id on every small group: a feed of one route   *)
(* whose trips, in any row order, all have shape S1.                       *)
(***************************************************************************)
MaxStopTimes == 3

GoodShapes ==
    <<ShapePt("S1", 2, Num(20), Num(21)), ShapePt("S1", 1, Num(10), Num(11))>>

\* The trips tables of n trips of route 1, their ids in any order.
GroupTrips(n) ==
    {[i \in 1..n |-> [trip_id |-> TripId(p[i]), route_id |-> RouteId(1),
                      shape_id |-> "S1", direction_id |-> Num(d[i])]] :
        p \in Permutations(1..n), d \in [1..n -> {0, 1}]}

\* The stop_times tables whose rows each belong to one of the trips.
GroupStopTimes ==
    UNION {{[i \in 1..n |-> StopTime(TripId(t[i]), "A", Num(i))] :
              t \in [1..n -> 1..MaxTrips]} : n \in 0..MaxStopTimes}

InitRep ==
    \E n \in 1..MaxTrips : \E t \in GroupTrips(n) : \E st \in GroupStopTimes :
        AtRouteLoop(Feed("", <<RouteRow(1)>>, t, TRUE, GoodShapes, st))
NextRep == RouteBegin \/ Direction \/ DirectionsEnd
SpecRep == InitRep /\ [][NextRep]_vars

\* The pass of the direction loop for directions[di - 1] is over.
DirectionDone == pc = "directions" /\ di > 1
DoneTrips == DirTrips(route_trips, directions[di - 1])
DoneIds == {r.trip_id : r \in Range(DoneTrips)}

RowsOf(t) == {k \in 1..Len(stop_times) : stop_times[k].trip_id = t}
\* The trips of the group with the greatest number of stop_times rows.
MostRows == {t \in DoneIds : \A u \in DoneIds :
                Cardinality(RowsOf(u)) <= Cardinality(RowsOf(t))}
\* Among them, the first by the rows of trips, and by the rows of stop_times.
FirstInTrips ==
    DoneTrips[CHOOSE i \in 1..Len(DoneTrips) :
                 /\ DoneTrips[i].trip_id \in MostRows
                 /\ \A j \in 1..(i - 1) : DoneTrips[j].trip_id \notin MostRows].trip_id
FirstInStopTimes ==
    stop_times[CHOOSE k \in 1..Len(stop_times) :
                  /\ stop_times[k].trip_id \in MostRows
                  /\ \A j \in 1..(k - 1) : stop_times[j].trip_id \notin MostRows].trip_id

\* C4 as amended: the representative is a trip of the group with the greatest
\* number of stop_times rows, whatever the row order of the two tables (None
\* when the group has no stop_times row); trips that tie are not told apart
\* by their row order.
C4_RepresentativeHasMostRows ==
    DirectionDone =>
        IF \A t \in DoneIds : RowsOf(t) = {}
        THEN rep_trip_id = <<>>
        ELSE rep_trip_id # <<>> /\ rep_trip_id[1] \in MostRows

\* C4 as claimed: moreover, of the trips that tie for the greatest number, the
\* representative is the first in source row order (of trips or of stop_times).
C4_TieBrokenByRowOrder ==
    (DirectionDone /\ rep_trip_id # <<>>) =>
        /\ rep_trip_id[1] \in MostRows
        /\ rep_trip_id[1] \in {FirstInTrips, FirstInStopTimes}

\* The second trip of a group of two is its representative: it has more rows,
\* though the first stop_times row is the other trip's.
C4_Witness ==
    /\ DirectionDone /\ Len(DoneTrips) = 2
    /\ Cardinality(RowsOf(DoneTrips[2].trip_id)) > Cardinality(RowsOf(DoneTrips[1].trip_id))
    /\ stop_times[1].trip_id = DoneTrips[1].trip_id
    /\ rep_trip_id = <<DoneTrips[2].trip_id>>

(***************************************************************************)
(* get_ordered_stops_for_trip and the stop points on every short trip: a   *)
(* feed of one route with one trip.                                        *)
(***************************************************************************)
TripStopTimes ==
    UNION {[1..n -> [trip_id : {TripId(1)}, stop_id : {"A", "B", "C"},
                     stop_sequence : {Num(1), Num(2), Str}]] : n \in 0..MaxStopTimes}

InitStops ==
    \E st \in TripStopTimes :
        AtRouteLoop(Feed("", <<RouteRow(1)>>,
                         <<[trip_id |-> TripId(1), route_id |-> RouteId(1),
                            shape_id |-> "S1", direction_id |-> Num(0)]>>,
                         TRUE, GoodShapes, st))
NextStops == RouteBegin \/ Direction \/ DirectionsEnd
SpecStops == InitStops /\ [][NextStops]_vars

\* The trip's rows with a numeric sequence number, the stops they visit and
\* the least sequence number of a stop.
NumericRows == {k \in 1..Len(stop_times) : stop_times[k].stop_sequence.k = "num"}
Visited == {stop_times[k].stop_id : k \in NumericRows}
FirstVisit(stop) ==
    CHOOSE n \in {stop_times[k].stop_sequence.v :
                    k \in {j \in NumericRows : stop_times[j].stop_id = stop}} :
        \A k \in NumericRows :
            stop_times[k].stop_id = stop => n <= stop_times[k].stop_sequence.v

\* The stop sequence: every visited stop once, at its first visit, ascending.
StopSequenceOrdered ==
    /\ Len(ordered) = Cardinality(Visited)
    /\ {ordered[i].stop_id : i \in 1..Len(ordered)} = Visited
    /\ \A i \in 1..Len(ordered) : ordered[i].stop_sequence = FirstVisit(ordered[i].stop_id)
    /\ \A i, j \in 1..Len(ordered) :
          i < j => ordered[i].stop_sequence <= ordered[j].stop_sequence

\* The first row of stops.txt for a stop has numbers for coordinates (or the
\* stop is not in stops.txt: its coordinates are NaN).
Castable(stop) ==
    \A k \in 1..Len(stops) :
        (stops[k].stop_id = stop /\ \A j \in 1..(k - 1) : stops[j].stop_id # stop)
            => (stops[k].stop_lon.k # "str" /\ stops[k].stop_lat.k # "str")

PointOf(row) == Point(row.stop_name, row.stop_lon, row.stop_lat, stop_icon_color)
EmittedPoints == stops_group_folder[1].sub[1].points

\* C9 as claimed: the emitted points are the stop sequence, one point for
\* every stop the trip visits.
C9_OnePointPerVisitedStop ==
    (DirectionDone /\ kml) =>
        /\ StopSequenceOrdered
        /\ EmittedPoints = [i \in 1..Len(ordered) |-> PointOf(ordered[i])]

\* C9 as amended: the stop sequence holds every stop of the trip's rows with
\* a numeric sequence number once, at its first visit in ascending sequence
\* order; the emitted points are the stops of it whose coordinates cast to
\* numbers, in that order.
C9_OnePointPerCastableStop ==
    (DirectionDone /\ kml) =>
        /\ StopSequenceOrdered
        /\ LET ok == SelectSeq(ordered, LAMBDA r : Castable(r.stop_id))
           IN EmittedPoints = [i \in 1..Len(ok) |-> PointOf(ok[i])]

\* A trip of three numeric rows that visits one stop twice has two points.
C9_Witness ==
    /\ DirectionDone /\ Cardinality(NumericRows) = 3
    /\ stop_times[1].stop_id = "A" /\ stop_times[3].stop_id = "A"
    /\ stop_times[1].stop_sequence.v > stop_times[2].stop_sequence.v
    /\ Len(ordered) = 2 /\ Len(EmittedPoints) = 2
    /\ ordered[2].stop_id = "A"

(***************************************************************************)
(* The overlay on every small archive, after a feed of one route without   *)
(* trips.                                                                  *)
(***************************************************************************)
InitOverlay == AtRouteLoop(Feed("", <<RouteRow(1)>>, <<>>, TRUE, <<>>, <<>>))
NextOverlay ==
    \/ RouteBegin
    \/ RoutesEnd
    \/ MetroGet
    \/ MetroResolve(Overlays)
    \/ MetroParse
    \/ MetroMerge
    \/ Save
SpecOverlay == InitOverlay /\ [][NextOverlay]_vars

\* The placemarks of the overlay with a line of 2 parsed coordinates or more.
RetainedPlacemarks ==
    SelectSeq(r_metro[1].placemarks, LAMBDA pm :
        pm.linestring /\ pm.has_text /\ Len(ParseCoords(pm.tokens)) >= 2)

ExpectedColor(name) ==
    IF \E i \in 1..(Len(name) - 2) :
          Lower(SubSeq(name, i, i + 2)) = <<"r", "e", "d">>
    THEN Red
    ELSE IF \E i \in 1..(Len(name) - 5) :
               Lower(SubSeq(name, i, i + 5)) = <<"o", "r", "a", "n", "g", "e">>
    THEN Orange ELSE White

\* C7: once merged, the top-level forward and backward folders hold, after
\* the route folders, one folder per retained segment and nothing for the
\* others: its one forward line has the parsed coordinates in source order,
\* its one backward line has them reversed, both have the color of the name.
C7_OverlayForwardAndReversed ==
    pc \in {"save", "done"} =>
        LET kept == RetainedPlacemarks
            n == Len(routes)
        IN /\ Len(fwd_group_folder) = n + Len(kept)
           /\ Len(bwd_group_folder) = n + Len(kept)
           /\ \A i \in 1..Len(kept) :
                LET f == fwd_group_folder[n + i].lines
                    b == bwd_group_folder[n + i].lines
                    c == ParseCoords(kept[i].tokens)
                IN /\ Len(f) = 1 /\ Len(b) = 1
                   /\ f[1].coords = c
                   /\ Len(b[1].coords) = Len(c)
                   /\ \A j \in 1..Len(c) : b[1].coords[j] = c[Len(c) + 1 - j]
                   /\ f[1].color = b[1].color
                   /\ f[1].color = ExpectedColor(f[1].name)

\* Of two placemarks with a line, the one with a single parsed coordinate
\* added nothing and the one with two has its two lines.
C7_Witness ==
    /\ pc = "save" /\ Len(r_metro[1].placemarks) = 2
    /\ \A i \in 1..2 : r_metro[1].placemarks[i].linestring
                        /\ Len(r_metro[1].placemarks[i].tokens) = 2
    /\ Len(ParseCoords(r_metro[1].placemarks[1].tokens)) = 1
    /\ Len(RetainedPlacemarks) = 1
    /\ Len(fwd_group_folder) = Len(routes) + 1
    /\ fwd_group_folder[Len(routes) + 1].lines[1].color = Red

(***************************************************************************)
(* Properties of the whole pipeline, checked under Spec.                   *)
(***************************************************************************)
FeedParsed ==
    /\ resp # <<>>
    /\ routes = resp[1].routes /\ trips = resp[1].trips
    /\ shapes = resp[1].shapes /\ stops = resp[1].stops
    /\ stop_times = resp[1].stop_times
    /\ trip_route_map = TripRouteMap(resp[1])

MergeStarted == pc \in {"merge", "save", "done"}

\* C1 as claimed: the document exists, and the merge runs, only once both
\* fetches have resolved and the feed is parsed.
C1_AssemblyAfterBothFetches ==
    (kml \/ MergeStarted) => (resp # <<>> /\ r_metro # <<>> /\ FeedParsed)

\* C1 as amended: the document is assembled only after the GTFS fetch has
\* resolved and the feed is parsed, and while no overlay request has been
\* issued yet; the overlay merge runs only after both fetches have resolved.
C1_AssemblyAfterFeedThenOverlay ==
    /\ kml => FeedParsed
    /\ pc \in {"build", "routes", "directions"} => net = <<"GET gtfs">>
    /\ MergeStarted => (kml /\ resp # <<>> /\ r_metro # <<>>)

\* A route line is in the document while the overlay response is outstanding,
\* and later the overlay has been merged into the same document.
C1_Witness ==
    /\ pc = "save" /\ metro_lines # <<>>
    /\ \E i \in 1..Len(routes) : fwd_group_folder[i].lines # <<>>

\* The (route row, direction) groups whose pass of the direction loop is over.
Group(i, d) == DirTrips(RouteTrips(routes[i].route_id), d)
GroupsDone ==
    {g \in (1..Len(routes)) \X {0, 1} :
       /\ kml /\ Group(g[1], g[2]) # <<>>
       /\ \/ g[1] < ri
          \/ /\ g[1] = ri /\ pc = "directions"
             /\ \E j \in 1..(di - 1) : directions[j] = g[2]}

\* The features of a group: the lines of the route's forward or backward
\* folder, the points of its FWD or BWD stops folder.
GroupLines(g) ==
    IF g[2] = 0 THEN fwd_group_folder[g[1]].lines ELSE bwd_group_folder[g[1]].lines
GroupPoints(g) == stops_group_folder[g[1]].sub[IF g[2] = 0 THEN 1 ELSE 2].points

\* The number of shape points of the group's first trip.
GroupCoordCount(g) ==
    LET shape_id == Group(g[1], g[2])[1].shape_id
    IN IF shape_id = NA THEN 0
       ELSE Cardinality({k \in 1..Len(shapes) : shapes[k].shape_id = shape_id})

\* The group's stop sequence is empty: no trip of it has stop times, or the
\* trip chosen for the stops has none with a numeric sequence number.
GroupStopsEmpty(g) ==
    \A rep \in pick_representative_trip_id(
                  {r.trip_id : r \in Range(Group(g[1], g[2]))}) :
        rep = <<>> \/ get_ordered_stops_for_trip(rep[1]) = {<<>>}

\* C3 as claimed: a group with fewer than 2 shape coordinates or an empty stop
\* sequence has no feature at all in the document.
C3_DegenerateVariantEmitsNothing ==
    \A g \in GroupsDone :
        (GroupCoordCount(g) < 2 \/ GroupStopsEmpty(g))
            => (GroupLines(g) = <<>> /\ GroupPoints(g) = <<>>)

\* C3 as amended: a group with fewer than 2 shape coordinates has no feature
\* at all; a group with an empty stop sequence has no stop point, and still
\* has its line when its shape has 2 coordinates or more.
C3_FewCoordsNothingNoStopsLineOnly ==
    \A g \in GroupsDone :
        /\ GroupCoordCount(g) < 2 => (GroupLines(g) = <<>> /\ GroupPoints(g) = <<>>)
        /\ GroupStopsEmpty(g) => GroupPoints(g) = <<>>
        /\ (GroupCoordCount(g) >= 2 /\ GroupStopsEmpty(g)) => Len(GroupLines(g)) = 1

\* One group with stop times but no shape id has no feature, and one group
\* with three shape points and an empty stop sequence has its line.
C3_Witness ==
    /\ pc = "done"
    /\ \E g \in GroupsDone :
          GroupCoordCount(g) < 2 /\ ~GroupStopsEmpty(g) /\ GroupLines(g) = <<>>
    /\ \E g \in GroupsDone :
          GroupStopsEmpty(g) /\ GroupCoordCount(g) = 3 /\ Len(GroupLines(g)) = 1

\* C2 as claimed: while a route's direction loop runs, every trip of the
\* route is in the trips of exactly one of the directions the loop goes
\* through; a trip with no direction is among the trips of direction 0.
C2_EveryTripInOneGroup ==
    pc = "directions" =>
        \A k \in 1..Len(route_trips) :
            /\ Cardinality({j \in 1..Len(directions) :
                  route_trips[k] \in Range(DirTrips(route_trips, directions[j]))}) = 1
            /\ IsNa(route_trips[k].direction_id) =>
                  (/\ 0 \in Range(directions)
                   /\ route_trips[k] \in Range(DirTrips(route_trips, 0)))

\* C5 as claimed: once the archive is loaded and validated, no exception comes
\* from a value of a row: the call raises only for the overlay.
C5_RowErrorNeverAborts ==
    (kml /\ pc = "raised") =>
        error \in {"HTTPError metro", "BadZipFile",
                   "RuntimeError No .kml file found inside Metro KMZ"}

ConfigMissing == gtfs_url = "" \/ github_token = ""

\* C6: once create_kmz or generate_kmz_file is called with an empty URL or
\* token, no request is ever issued, and the call raises the configuration
\* error when it gets to check.
C6_ConfigErrorBeforeNetwork ==
    (pc # "idle" /\ ConfigMissing) =>
        /\ net = <<>> /\ resp = <<>> /\ r_metro = <<>>
        /\ \/ pc = "config"
           \/ /\ pc = "raised"
              /\ error \in {"HTTPException 400", "RuntimeError GTFS_URL is missing",
                            "RuntimeError GITHUB_TOKEN is missing"}

\* generate_kmz_file has raised for a missing token, the URL being given.
C6_Witness ==
    /\ pc = "raised" /\ error = "RuntimeError GITHUB_TOKEN is missing"
    /\ gtfs_url # "" /\ github_token = "" /\ net = <<>>

\* The route loop is over: the overlay request is due or issued.
AfterRouteLoop == kml /\ (pc = "metro_get" \/ Len(net) = 2)

\* C10: after the route loop, the folders of route row i are the i-th folder
\* of each top-level folder, the stops one holding a FWD and a BWD folder,
\* whatever the route's trips, shapes and stop times; until the merge the
\* top-level folders hold nothing else.
C10_FoldersForEveryRoute ==
    AfterRouteLoop =>
        /\ Len(stops_group_folder) = Len(routes)
        /\ Len(fwd_group_folder) >= Len(routes)
        /\ Len(bwd_group_folder) >= Len(routes)
        /\ ~MergeStarted =>
              (Len(fwd_group_folder) = Len(routes) /\ Len(bwd_group_folder) = Len(routes))
        /\ \A i \in 1..Len(routes) :
              /\ fwd_group_folder[i].name = get_route_name(routes[i])
              /\ bwd_group_folder[i].name = get_route_name(routes[i])
              /\ stops_group_folder[i].name = get_route_name(routes[i])
              /\ Len(stops_group_folder[i].sub) = 2
              /\ stops_group_folder[i].sub[1].name = "Stops - FWD"
              /\ stops_group_folder[i].sub[2].name = "Stops - BWD"

\* After the loop, a route without trips and a route whose only group has no
\* shape id both have their folders, all empty.
C10_Witness ==
    /\ AfterRouteLoop /\ Len(routes) = 2
    /\ \E i, j \in 1..Len(routes) :
          /\ RouteTrips(routes[i].route_id) = <<>>
          /\ RouteTrips(routes[j].route_id) # <<>>
          /\ \A r \in Range(RouteTrips(routes[j].route_id)) : r.shape_id = NA
          /\ \A k \in {i, j} :
                /\ fwd_group_folder[k].lines = <<>> /\ bwd_group_folder[k].lines = <<>>
                /\ stops_group_folder[k].sub[1].points = <<>>
                /\ stops_group_folder[k].sub[2].points = <<>>

=============================================================================
